---- MODULE Spec2Model ----
(***************************************************************************)
(* A model of the sudoku_solver crate: the Grid of src/src/lib.rs, its     *)
(* propagation primitives (del_maybe, set_cell, update_counters), the      *)
(* scans (find_hidden_singles, find_maybe_pair), the recursive solve and   *)
(* the caller of src/src/main.rs.                                          *)
(*                                                                         *)
(* A position is the pair <<x, y>> (index.0, index.1 of the source) and    *)
(* cells[x][y] is indexed as in the source.  A candidate bitmap (u16) is   *)
(* modelled by the set of digits whose bit is set: bit d-1 of maybe[x][y]  *)
(* is set iff d \in maybe[x][y]; count_ones is Cardinality and             *)
(* trailing_zeros + 1 is the least element.  Counters are u8.  A grid      *)
(* string is the sequence of its 81 digits.                                *)
(***************************************************************************)
EXTENDS Integers, Sequences, FiniteSets

\* Side of the grid: every array of Grid is [[_; 9]; 9].
N == 9
\* Side of a block (index / 3 * 3).
B == 3
\* Number of values of a u8 counter.
U8 == 256

\* How many leading clues of a test puzzle the inputs may blank out.
MaxDropped == 5
\* How many trailing blanks of a test puzzle the inputs may fill in from its solution.
MaxRevealed == 4
\* How many leading cells of a solved grid the inputs may overwrite with a wrong clue.
MaxWrong == 2
\* Positions 0..PerturbSpan (both coordinates) are the ones VerifyInit perturbs.
PerturbSpan == 2

Idx == 0 .. (N - 1)
Digits == 1 .. N
Pos == Idx \X Idx

Front(s) == SubSeq(s, 1, Len(s) - 1)
Last(s) == s[Len(s)]
Min(S) == CHOOSE m \in S : \A k \in S : m <= k

\* The block of position <<x, y>>: x / 3 + y / 3 * 3.
BlkOf(x, y) == (x \div B) + (y \div B) * B
\* The k-th cell (k in 0..8, y outer, x inner) of block blk.
BlkCell(blk, k) ==
  LET blk_y == (blk \div B) * B
      blk_x == (blk - blk_y) * B
  IN  << blk_x + (k % B), blk_y + (k \div B) >>

(***************************************************************************)
(* Grid strings used as inputs: the three of tests::test_solver with the   *)
(* two expected solutions, and a grid whose first row cannot take a 1.     *)
(***************************************************************************)
Puzzle1 ==
  << 6,0,0,0,0,8,9,4,0,
     9,0,0,0,0,6,1,0,0,
     0,7,0,0,4,0,0,0,0,
     2,0,0,6,1,0,0,0,0,
     0,0,0,0,0,0,2,0,0,
     0,8,9,0,0,2,0,0,0,
     0,0,0,0,6,0,0,0,5,
     0,0,0,0,0,0,0,3,0,
     8,0,0,0,0,1,6,0,0 >>

Solution1 ==
  << 6,2,5,1,7,8,9,4,3,
     9,4,8,3,2,6,1,5,7,
     3,7,1,9,4,5,8,6,2,
     2,5,7,6,1,9,3,8,4,
     4,6,3,5,8,7,2,9,1,
     1,8,9,4,3,2,5,7,6,
     7,9,2,8,6,3,4,1,5,
     5,1,6,2,9,4,7,3,8,
     8,3,4,7,5,1,6,2,9 >>

Puzzle2 ==
  << 1,0,0,0,0,7,0,9,0,
     0,3,0,0,2,0,0,0,8,
     0,0,9,6,0,0,5,0,0,
     0,0,5,3,0,0,9,0,0,
     0,1,0,0,8,0,0,0,2,
     6,0,0,0,0,4,0,0,0,
     3,0,0,0,0,0,0,1,0,
     0,4,0,0,0,0,0,0,7,
     0,0,7,0,0,0,3,0,0 >>

Solution2 ==
  << 1,6,2,8,5,7,4,9,3,
     5,3,4,1,2,9,6,7,8,
     7,8,9,6,4,3,5,2,1,
     4,7,5,3,1,2,9,8,6,
     9,1,3,5,8,6,7,4,2,
     6,2,8,7,9,4,1,3,5,
     3,5,6,4,7,8,2,1,9,
     2,4,1,9,3,5,8,6,7,
     8,9,7,2,6,1,3,5,4 >>

Puzzle3 ==
  << 2,3,4,5,0,0,2,0,0,
     0,0,0,0,2,3,0,4,0,
     0,0,0,0,3,0,4,0,0,
     0,0,0,6,0,0,0,0,0,
     3,0,0,0,0,0,0,0,0,
     0,0,0,2,3,0,0,4,0,
     0,4,0,0,0,0,6,5,4,
     3,0,0,0,0,0,0,1,0,
     2,0,3,0,0,0,0,0,4 >>

Starved ==
  << 0,0,0,0,0,0,2,3,4,
     1,0,0,0,0,0,0,0,0,
     0,0,0,1,0,0,0,0,0,
     0,0,0,0,0,0,0,0,0,
     0,0,0,0,0,0,0,0,0,
     0,0,0,0,0,0,0,0,0,
     0,0,0,0,0,0,0,0,0,
     0,0,0,0,0,0,0,0,0,
     0,0,0,0,0,0,0,0,0 >>

Blank == [i \in 1 .. (N * N) |-> 0]

\* str with its first k non-zero clues blanked.
DropClues(str, k) ==
  [i \in 1 .. Len(str) |->
     IF Cardinality({j \in 1 .. i : str[j] # 0}) <= k THEN 0 ELSE str[i]]

\* str with its last k blanks filled in from the solved grid sol.
Reveal(str, sol, k) ==
  [i \in 1 .. Len(str) |->
     IF str[i] = 0 /\ Cardinality({j \in i .. Len(str) : str[j] = 0}) <= k
     THEN sol[i] ELSE str[i]]

\* str with the digit at (1-based) place i replaced by the next digit.
WrongClue(str, i) == [str EXCEPT ![i] = (str[i] % N) + 1]

\* Inputs with exactly one completion: each test puzzle has one (its expected
\* solution), hence so has the puzzle with more of that solution filled in.
Unique1 == { Reveal(Puzzle1, Solution1, k) : k \in 0 .. MaxRevealed } \cup { Solution1 }
Unique2 == { Reveal(Puzzle2, Solution2, k) : k \in 0 .. MaxRevealed } \cup { Solution2 }

ClueGrids ==
  Unique1 \cup Unique2
    \cup { DropClues(Puzzle1, k) : k \in 0 .. MaxDropped }
    \cup { DropClues(Puzzle2, k) : k \in 0 .. MaxDropped }
    \cup { WrongClue(Solution1, i) : i \in 1 .. MaxWrong }
    \cup { Puzzle3, Starved, Blank }

(***************************************************************************)
(* Grid                                                                    *)
(***************************************************************************)
Default ==
  [ cells |-> [x \in Idx |-> [y \in Idx |-> 0]],
    maybe |-> [x \in Idx |-> [y \in Idx |-> Digits]],
    row_digit_counters |-> [r \in Idx |-> [di \in Idx |-> N]],
    col_digit_counters |-> [c \in Idx |-> [di \in Idx |-> N]],
    blk_digit_counters |-> [b \in Idx |-> [di \in Idx |-> N]],
    del_maybes |-> << >>,
    set_cells |-> << >> ]

\* from_str with the two coordinates of a clue exchanged.
from_str_swapped(str) ==
  LET entry(i) == << str[i], << (i - 1) \div N, (i - 1) - ((i - 1) \div N) * N >> >>
      all == [i \in 1 .. Len(str) |-> entry(i)]
      nonzero(e) == e[1] # 0
  IN  [Default EXCEPT !.set_cells = SelectSeq(all, nonzero)]

from_str(str) ==
  LET entry(i) == << str[i], << (i - 1) - ((i - 1) \div N) * N, (i - 1) \div N >> >>
      all == [i \in 1 .. Len(str) |-> entry(i)]
      nonzero(e) == e[1] # 0
  IN  [Default EXCEPT !.set_cells = SelectSeq(all, nonzero)]

to_str(g) ==
  [i \in 1 .. (N * N) |-> g.cells[(i - 1) % N][(i - 1) \div N]]

AllZero == [i \in Idx |-> [j \in Idx |-> 0]]
AllOne == [i \in Idx |-> [j \in Idx |-> 1]]
NoMaybe == [x \in Idx |-> [y \in Idx |-> {}]]

\* verify_solution without the per-block count.
verify_solution_noblk(g) ==
  IF \/ g.maybe # NoMaybe
     \/ g.row_digit_counters # AllZero
     \/ g.col_digit_counters # AllZero
     \/ g.blk_digit_counters # AllZero
  THEN FALSE
  ELSE IF \E y \in Idx, x \in Idx : g.cells[x][y] = 0
  THEN FALSE
  ELSE
    LET row_counts == [r \in Idx |-> [di \in Idx |->
            Cardinality({x \in Idx : g.cells[x][r] = di + 1})]]
        col_counts == [c \in Idx |-> [di \in Idx |->
            Cardinality({y \in Idx : g.cells[c][y] = di + 1})]]
    IN  row_counts = AllOne /\ col_counts = AllOne

verify_solution(g) ==
  IF \/ g.maybe # NoMaybe
     \/ g.row_digit_counters # AllZero
     \/ g.col_digit_counters # AllZero
     \/ g.blk_digit_counters # AllZero
  THEN FALSE
  ELSE IF \E y \in Idx, x \in Idx : g.cells[x][y] = 0
  THEN FALSE
  ELSE
    LET row_counts == [r \in Idx |-> [di \in Idx |->
            Cardinality({x \in Idx : g.cells[x][r] = di + 1})]]
        col_counts == [c \in Idx |-> [di \in Idx |->
            Cardinality({y \in Idx : g.cells[c][y] = di + 1})]]
        blk_counts == [b \in Idx |-> [di \in Idx |->
            Cardinality({p \in Pos : BlkOf(p[1], p[2]) = b /\ g.cells[p[1]][p[2]] = di + 1})]]
    IN  row_counts = AllOne /\ col_counts = AllOne /\ blk_counts = AllOne

\* -= 1 on a u8: wraps in a release build (a debug build aborts; Underflows
\* below says when).
Dec(c) == (c + U8 - 1) % U8

update_counters(g, digit, index) ==
  [g EXCEPT
     !.row_digit_counters[index[2]][digit - 1] = Dec(@),
     !.col_digit_counters[index[1]][digit - 1] = Dec(@),
     !.blk_digit_counters[BlkOf(index[1], index[2])][digit - 1] = Dec(@)]

\* update_counters(digit, index) would decrement a counter that is 0.
Underflows(g, digit, index) ==
  \/ g.row_digit_counters[index[2]][digit - 1] = 0
  \/ g.col_digit_counters[index[1]][digit - 1] = 0
  \/ g.blk_digit_counters[BlkOf(index[1], index[2])][digit - 1] = 0

\* The usize::MAX placeholder position of find_maybe_pair.
Placeholder == << -1, -1 >>

\* The positions set_cell visits, in its order: the row, the column, the block.
Visited(index) ==
  [x \in 1 .. N |-> << x - 1, index[2] >>]
    \o [y \in 1 .. N |-> << index[1], y - 1 >>]
    \o [k \in 1 .. N |-> BlkCell(BlkOf(index[1], index[2]), k - 1)]

RECURSIVE EraseMaybes(_, _, _)
\* The 'Erase maybes' loop of set_cell: one update_counters per remaining bit.
EraseMaybes(g, maybes, index) ==
  IF maybes = {} THEN g
  ELSE LET di == Min(maybes) - 1
       IN  EraseMaybes(update_counters(g, di + 1, index), maybes \ {di + 1}, index)

\* set_cell that fails on every filled cell, the digit it holds included.
set_cell_norepeat(g, digit, index) ==
  IF g.cells[index[1]][index[2]] # 0
  THEN [res |-> "Err", g |-> g]
  ELSE IF digit \notin g.maybe[index[1]][index[2]]
  THEN [res |-> "Err", g |-> g]
  ELSE
    LET has(p) == digit \in g.maybe[p[1]][p[2]]
        removals == [i \in 1 .. Len(SelectSeq(Visited(index), has)) |->
                       << digit, SelectSeq(Visited(index), has)[i] >>]
        g1 == [g EXCEPT !.del_maybes = @ \o removals,
                        !.cells[index[1]][index[2]] = digit]
        g2 == EraseMaybes(g1, g.maybe[index[1]][index[2]], index)
    IN  [res |-> "Ok", g |-> [g2 EXCEPT !.maybe[index[1]][index[2]] = {}]]

\* set_cell without its two checks: it sets the cell whatever the cell holds.
set_cell_overwrite(g, digit, index) ==
  LET has(p) == digit \in g.maybe[p[1]][p[2]]
      removals == [i \in 1 .. Len(SelectSeq(Visited(index), has)) |->
                     << digit, SelectSeq(Visited(index), has)[i] >>]
      g1 == [g EXCEPT !.del_maybes = @ \o removals,
                      !.cells[index[1]][index[2]] = digit]
      g2 == EraseMaybes(g1, g.maybe[index[1]][index[2]], index)
  IN  [res |-> "Ok", g |-> [g2 EXCEPT !.maybe[index[1]][index[2]] = {}]]

\* set_cell that enqueues no removal for the column of the cell.
set_cell_nocol(g, digit, index) ==
  IF g.cells[index[1]][index[2]] # 0
  THEN IF g.cells[index[1]][index[2]] # digit
       THEN [res |-> "Err", g |-> g]
       ELSE [res |-> "Ok", g |-> g]
  ELSE IF digit \notin g.maybe[index[1]][index[2]]
  THEN [res |-> "Err", g |-> g]
  ELSE
    LET has(p) == digit \in g.maybe[p[1]][p[2]] /\ (p[1] # index[1] \/ p = index)
        removals == [i \in 1 .. Len(SelectSeq(Visited(index), has)) |->
                       << digit, SelectSeq(Visited(index), has)[i] >>]
        g1 == [g EXCEPT !.del_maybes = @ \o removals,
                        !.cells[index[1]][index[2]] = digit]
        g2 == EraseMaybes(g1, g.maybe[index[1]][index[2]], index)
    IN  [res |-> "Ok", g |-> [g2 EXCEPT !.maybe[index[1]][index[2]] = {}]]

\* set_cell without its contradiction check.
set_cell_nocheck(g, digit, index) ==
  IF g.cells[index[1]][index[2]] # 0
  THEN IF g.cells[index[1]][index[2]] # digit
       THEN [res |-> "Err", g |-> g]
       ELSE [res |-> "Ok", g |-> g]
  ELSE
    LET has(p) == digit \in g.maybe[p[1]][p[2]]
        removals == [i \in 1 .. Len(SelectSeq(Visited(index), has)) |->
                       << digit, SelectSeq(Visited(index), has)[i] >>]
        g1 == [g EXCEPT !.del_maybes = @ \o removals,
                        !.cells[index[1]][index[2]] = digit]
        g2 == EraseMaybes(g1, g.maybe[index[1]][index[2]], index)
    IN  [res |-> "Ok", g |-> [g2 EXCEPT !.maybe[index[1]][index[2]] = {}]]

\* set_cell that decrements the counters of the digit it sets only.
set_cell_onecount(g, digit, index) ==
  IF g.cells[index[1]][index[2]] # 0
  THEN IF g.cells[index[1]][index[2]] # digit
       THEN [res |-> "Err", g |-> g]
       ELSE [res |-> "Ok", g |-> g]
  ELSE IF digit \notin g.maybe[index[1]][index[2]]
  THEN [res |-> "Err", g |-> g]
  ELSE
    LET has(p) == digit \in g.maybe[p[1]][p[2]]
        removals == [i \in 1 .. Len(SelectSeq(Visited(index), has)) |->
                       << digit, SelectSeq(Visited(index), has)[i] >>]
        g1 == [g EXCEPT !.del_maybes = @ \o removals,
                        !.cells[index[1]][index[2]] = digit]
        g2 == update_counters(g1, digit, index)
    IN  [res |-> "Ok", g |-> [g2 EXCEPT !.maybe[index[1]][index[2]] = {}]]

\* set_cell that accepts a cell already holding another digit.
set_cell_lenient(g, digit, index) ==
  IF g.cells[index[1]][index[2]] # 0
  THEN [res |-> "Ok", g |-> g]
  ELSE IF digit \notin g.maybe[index[1]][index[2]]
  THEN [res |-> "Err", g |-> g]
  ELSE
    LET has(p) == digit \in g.maybe[p[1]][p[2]]
        removals == [i \in 1 .. Len(SelectSeq(Visited(index), has)) |->
                       << digit, SelectSeq(Visited(index), has)[i] >>]
        g1 == [g EXCEPT !.del_maybes = @ \o removals,
                        !.cells[index[1]][index[2]] = digit]
        g2 == EraseMaybes(g1, g.maybe[index[1]][index[2]], index)
    IN  [res |-> "Ok", g |-> [g2 EXCEPT !.maybe[index[1]][index[2]] = {}]]

set_cell(g, digit, index) ==
  IF g.cells[index[1]][index[2]] # 0
  THEN IF g.cells[index[1]][index[2]] # digit
       THEN [res |-> "Err", g |-> g]
       ELSE [res |-> "Ok", g |-> g]
  ELSE IF digit \notin g.maybe[index[1]][index[2]]
  THEN [res |-> "Err", g |-> g]
  ELSE
    LET has(p) == digit \in g.maybe[p[1]][p[2]]
        removals == [i \in 1 .. Len(SelectSeq(Visited(index), has)) |->
                       << digit, SelectSeq(Visited(index), has)[i] >>]
        g1 == [g EXCEPT !.del_maybes = @ \o removals,
                        !.cells[index[1]][index[2]] = digit]
        g2 == EraseMaybes(g1, g.maybe[index[1]][index[2]], index)
    IN  [res |-> "Ok", g |-> [g2 EXCEPT !.maybe[index[1]][index[2]] = {}]]

\* del_maybe that enqueues no assignment when one candidate is left.
del_maybe_nosingle(g, digit, index) ==
  IF digit \notin g.maybe[index[1]][index[2]]
  THEN [res |-> "Ok", g |-> g]
  ELSE
    LET left == g.maybe[index[1]][index[2]] \ {digit}
        g1 == [g EXCEPT !.maybe[index[1]][index[2]] = left]
    IN  [res |-> "Ok", g |-> update_counters(g1, digit, index)]

\* del_maybe without its early return.
del_maybe_noguard(g, digit, index) ==
  LET left == g.maybe[index[1]][index[2]] \ {digit}
      g1 == [g EXCEPT !.maybe[index[1]][index[2]] = left]
      g2 == IF Cardinality(left) = 1
            THEN [g1 EXCEPT !.set_cells = Append(@, << Min(left), index >>)]
            ELSE g1
  IN  [res |-> "Ok", g |-> update_counters(g2, digit, index)]

\* del_maybe without its update_counters call.
del_maybe_nocount(g, digit, index) ==
  IF digit \notin g.maybe[index[1]][index[2]]
  THEN [res |-> "Ok", g |-> g]
  ELSE
    LET left == g.maybe[index[1]][index[2]] \ {digit}
        g1 == [g EXCEPT !.maybe[index[1]][index[2]] = left]
    IN  [res |-> "Ok",
         g |-> IF Cardinality(left) = 1
               THEN [g1 EXCEPT !.set_cells = Append(@, << Min(left), index >>)]
               ELSE g1]

del_maybe(g, digit, index) ==
  IF digit \notin g.maybe[index[1]][index[2]]
  THEN [res |-> "Ok", g |-> g]
  ELSE
    LET left == g.maybe[index[1]][index[2]] \ {digit}
        g1 == [g EXCEPT !.maybe[index[1]][index[2]] = left]
        g2 == IF Cardinality(left) = 1
              THEN [g1 EXCEPT !.set_cells = Append(@, << Min(left), index >>)]
              ELSE g1
    IN  [res |-> "Ok", g |-> update_counters(g2, digit, index)]

\* The scan orders of find_hidden_singles and find_maybe_pair: group, digit
\* index, then the cells of the group.
RowCell(row, k) == << k, row >>
ColCell(col, k) == << col, k >>

RowScan == [i \in 1 .. (N * N * N) |->
   [grp |-> (i - 1) \div (N * N), di |-> ((i - 1) \div N) % N,
    pos |-> RowCell((i - 1) \div (N * N), (i - 1) % N)]]
ColScan == [i \in 1 .. (N * N * N) |->
   [grp |-> (i - 1) \div (N * N), di |-> ((i - 1) \div N) % N,
    pos |-> ColCell((i - 1) \div (N * N), (i - 1) % N)]]
BlkScan == [i \in 1 .. (N * N * N) |->
   [grp |-> (i - 1) \div (N * N), di |-> ((i - 1) \div N) % N,
    pos |-> BlkCell((i - 1) \div (N * N), (i - 1) % N)]]

\* The entries one of the three loops of find_hidden_singles pushes.
Singles(g, counters, scan) ==
  LET hit(e) == /\ counters[e.grp][e.di] = 1
                /\ (e.di + 1) \in g.maybe[e.pos[1]][e.pos[2]]
      hits == SelectSeq(scan, hit)
  IN  [i \in 1 .. Len(hits) |-> << hits[i].di + 1, hits[i].pos >>]

find_hidden_singles(g) ==
  [g EXCEPT !.set_cells =
     @ \o Singles(g, g.row_digit_counters, RowScan)
       \o Singles(g, g.col_digit_counters, ColScan)
       \o Singles(g, g.blk_digit_counters, BlkScan)]

\* PairIn that collects the cells with any candidate left instead of the
\* cells listing the digit.
PairIn_blank(g, counters, scan) ==
  LET two(e) == counters[e.grp][e.di] = 2
      twos == SelectSeq(scan, two)
  IN  IF twos = << >>
      THEN [found |-> FALSE, oob |-> FALSE, digit |-> 0,
            cells |-> << Placeholder, Placeholder >>]
      ELSE
        LET grp == twos[1].grp
            di == twos[1].di
            mine(e) == /\ e.grp = grp /\ e.di = di
                       /\ g.maybe[e.pos[1]][e.pos[2]] # {}
            hits == SelectSeq(twos, mine)
        IN  [found |-> TRUE, oob |-> Len(hits) > 2, digit |-> di + 1,
             cells |-> [i \in 1 .. 2 |->
                          IF i <= Len(hits) THEN hits[i].pos ELSE Placeholder]]

\* PairIn that takes the first two cells of a group listing a digit two or
\* more cells list.
PairIn_any(g, counters, scan) ==
  LET two(e) == counters[e.grp][e.di] >= 2
      twos == SelectSeq(scan, two)
  IN  IF twos = << >>
      THEN [found |-> FALSE, oob |-> FALSE, digit |-> 0,
            cells |-> << Placeholder, Placeholder >>]
      ELSE
        LET grp == twos[1].grp
            di == twos[1].di
            mine(e) == /\ e.grp = grp /\ e.di = di
                       /\ (di + 1) \in g.maybe[e.pos[1]][e.pos[2]]
            hits == SelectSeq(twos, mine)
        IN  [found |-> TRUE, oob |-> FALSE, digit |-> di + 1,
             cells |-> [i \in 1 .. 2 |->
                          IF i <= Len(hits) THEN hits[i].pos ELSE Placeholder]]

\* One of the three loops of find_maybe_pair: the first (group, digit) of the
\* scan whose counter is 2, and the cells of the group that list the digit.
\* found: such a counter exists; oob: a third cell lists the digit, so that
\* cells[cell_index] is written out of bounds.
PairIn(g, counters, scan) ==
  LET two(e) == counters[e.grp][e.di] = 2
      twos == SelectSeq(scan, two)
  IN  IF twos = << >>
      THEN [found |-> FALSE, oob |-> FALSE, digit |-> 0,
            cells |-> << Placeholder, Placeholder >>]
      ELSE
        LET grp == twos[1].grp
            di == twos[1].di
            mine(e) == /\ e.grp = grp /\ e.di = di
                       /\ (di + 1) \in g.maybe[e.pos[1]][e.pos[2]]
            hits == SelectSeq(twos, mine)
        IN  [found |-> TRUE, oob |-> Len(hits) > 2, digit |-> di + 1,
             cells |-> [i \in 1 .. 2 |->
                          IF i <= Len(hits) THEN hits[i].pos ELSE Placeholder]]

find_maybe_pair(g) ==
  LET r == PairIn(g, g.row_digit_counters, RowScan)
      c == PairIn(g, g.col_digit_counters, ColScan)
      b == PairIn(g, g.blk_digit_counters, BlkScan)
  IN  IF r.found THEN r ELSE IF c.found THEN c ELSE b

(***************************************************************************)
(* The state machine: main calls solve on the grid built by from_str;      *)
(* solve calls itself on a clone.                                          *)
(*   clues     the grid string given to from_str                           *)
(*   order     the order in which the inner loop takes pending work        *)
(*   grid      `self` of the innermost running solve                       *)
(*   frames    the suspended callers, outermost first: self and the locals *)
(*             pair_digit, pair_indecies of each                           *)
(*   pc        "loop": in the inner loop; "stalled": after its break;      *)
(*             "ret": the innermost solve has returned ret; "done": main   *)
(*             has finished; "panicked": the process has aborted           *)
(*   ret       the Result returned: "Ok", "Err", or "none" while running   *)
(*   output    what main prints                                            *)
(*   last      the primitive applied by the last step (history)            *)
(*   underflow a counter that was 0 has been decremented (history)         *)
(*   commits   number of hypotheticals adopted so far (history)            *)
(***************************************************************************)
VARIABLES clues, order, grid, frames, pc, ret, output, last, underflow, commits

vars == << clues, order, grid, frames, pc, ret, output, last, underflow, commits >>

NoOp == [op |-> "none", digit |-> 0, index |-> Placeholder, had |-> FALSE, res |-> "none"]

\* The order of solve's inner loop: a removal is taken while one is pending,
\* an assignment otherwise; Vec::pop takes the entry pushed last.
CodeOrder == [first |-> "removals", del |-> "top", set |-> "top"]

Init ==
  /\ clues \in ClueGrids
  /\ order = CodeOrder
  /\ grid = from_str(clues)
  /\ frames = << >>
  /\ pc = "loop"
  /\ ret = "none"
  /\ output = [kind |-> "none", str |-> << >>]
  /\ last = NoOp
  /\ underflow = FALSE
  /\ commits = 0

\* solve, first arm of the inner loop: pop a removal and apply it.
PopDelMaybe ==
  /\ pc = "loop"
  /\ grid.del_maybes # << >>
  /\ LET digit == Last(grid.del_maybes)[1]
         index == Last(grid.del_maybes)[2]
         popped == [grid EXCEPT !.del_maybes = Front(@)]
         r == del_maybe(popped, digit, index)
         had == digit \in grid.maybe[index[1]][index[2]]
     IN  /\ grid' = r.g
         /\ last' = [op |-> "del_maybe", digit |-> digit, index |-> index,
                     had |-> had, res |-> r.res]
         /\ underflow' = (underflow \/ (had /\ Underflows(popped, digit, index)))
         /\ IF r.res = "Err"
            THEN pc' = "ret" /\ ret' = "Err"
            ELSE pc' = "loop" /\ ret' = "none"
  /\ UNCHANGED << clues, order, frames, output, commits >>

\* solve, second arm: no removal is pending; pop an assignment and apply it.
\* An index outside the grid (the placeholder) aborts on cells[index.0].
PopSetCell ==
  /\ pc = "loop"
  /\ grid.del_maybes = << >>
  /\ grid.set_cells # << >>
  /\ LET digit == Last(grid.set_cells)[1]
         index == Last(grid.set_cells)[2]
         popped == [grid EXCEPT !.set_cells = Front(@)]
     IN  IF index \notin Pos
         THEN /\ pc' = "panicked"
              /\ grid' = popped
              /\ UNCHANGED << ret, last, underflow >>
         ELSE
           LET r == set_cell(popped, digit, index)
               had == digit \in grid.maybe[index[1]][index[2]]
               erased == IF grid.cells[index[1]][index[2]] = 0 /\ had
                         THEN grid.maybe[index[1]][index[2]] ELSE {}
           IN  /\ grid' = r.g
               /\ last' = [op |-> "set_cell", digit |-> digit, index |-> index,
                           had |-> had, res |-> r.res]
               /\ underflow' = (underflow \/
                                  \E d \in erased : Underflows(popped, d, index))
               /\ IF r.res = "Err"
                  THEN pc' = "ret" /\ ret' = "Err"
                  ELSE pc' = "loop" /\ ret' = "none"
  /\ UNCHANGED << clues, order, frames, output, commits >>

\* HiddenSingles that leaves the inner loop whatever it has enqueued.
HiddenSingles_always ==
  /\ pc = "loop"
  /\ grid.del_maybes = << >>
  /\ grid.set_cells = << >>
  /\ grid' = find_hidden_singles(grid)
  /\ pc' = "stalled"
  /\ last' = [NoOp EXCEPT !.op = "find_hidden_singles"]
  /\ UNCHANGED << clues, order, frames, ret, output, underflow, commits >>

\* solve, third arm: both queues are empty; scan for hidden singles and
\* leave the inner loop when the scan pushed nothing.
HiddenSingles ==
  /\ pc = "loop"
  /\ grid.del_maybes = << >>
  /\ grid.set_cells = << >>
  /\ grid' = find_hidden_singles(grid)
  /\ pc' = IF Len(grid'.set_cells) = 0 THEN "stalled" ELSE "loop"
  /\ last' = [NoOp EXCEPT !.op = "find_hidden_singles"]
  /\ UNCHANGED << clues, order, frames, ret, output, underflow, commits >>

\* solve: no candidate is left anywhere; return Ok.
Solved ==
  /\ pc = "stalled"
  /\ grid.maybe = NoMaybe
  /\ pc' = "ret"
  /\ ret' = "Ok"
  /\ last' = NoOp
  /\ UNCHANGED << clues, order, grid, frames, output, underflow, commits >>

\* Guess that pushes no assignment on the clone.
Guess_nopush ==
  /\ pc = "stalled"
  /\ grid.maybe # NoMaybe
  /\ LET pair == find_maybe_pair(grid)
     IN  /\ pair.found
         /\ ~ pair.oob
         /\ frames' = Append(frames, [self |-> grid, pair_digit |-> pair.digit,
                                      pair_indecies |-> pair.cells])
         /\ grid' = grid
  /\ pc' = "loop"
  /\ last' = [NoOp EXCEPT !.op = "find_maybe_pair"]
  /\ UNCHANGED << clues, order, ret, output, underflow, commits >>

\* solve: find a pair, clone, push the first position on the clone and call
\* solve on it.
Guess ==
  /\ pc = "stalled"
  /\ grid.maybe # NoMaybe
  /\ LET pair == find_maybe_pair(grid)
     IN  /\ pair.found
         /\ ~ pair.oob
         /\ frames' = Append(frames, [self |-> grid, pair_digit |-> pair.digit,
                                      pair_indecies |-> pair.cells])
         /\ grid' = [grid EXCEPT !.set_cells = Append(@, << pair.digit, pair.cells[1] >>)]
  /\ pc' = "loop"
  /\ last' = [NoOp EXCEPT !.op = "find_maybe_pair"]
  /\ UNCHANGED << clues, order, ret, output, underflow, commits >>

\* find_maybe_pair aborts: no counter is 2 (the panic!), or a third cell is
\* written into cells.
Panic ==
  /\ pc = "stalled"
  /\ grid.maybe # NoMaybe
  /\ LET pair == find_maybe_pair(grid)
     IN  ~ pair.found \/ pair.oob
  /\ pc' = "panicked"
  /\ last' = [NoOp EXCEPT !.op = "find_maybe_pair"]
  /\ UNCHANGED << clues, order, grid, frames, ret, output, underflow, commits >>

\* HypotheticalFailed that carries on with the failed hypothetical's state.
HypotheticalFailed_keep ==
  /\ pc = "ret"
  /\ ret = "Err"
  /\ frames # << >>
  /\ LET caller == Last(frames)
     IN  grid' = [grid EXCEPT
                    !.set_cells = Append(@, << caller.pair_digit, caller.pair_indecies[2] >>)]
  /\ frames' = Front(frames)
  /\ pc' = "loop"
  /\ ret' = "none"
  /\ last' = [NoOp EXCEPT !.op = "hypothetical_failed"]
  /\ UNCHANGED << clues, order, output, underflow, commits >>

\* HypotheticalFailed that pushes the first position again.
HypotheticalFailed_first ==
  /\ pc = "ret"
  /\ ret = "Err"
  /\ frames # << >>
  /\ LET caller == Last(frames)
     IN  grid' = [caller.self EXCEPT
                    !.set_cells = Append(@, << caller.pair_digit, caller.pair_indecies[1] >>)]
  /\ frames' = Front(frames)
  /\ pc' = "loop"
  /\ ret' = "none"
  /\ last' = [NoOp EXCEPT !.op = "hypothetical_failed"]
  /\ UNCHANGED << clues, order, output, underflow, commits >>

\* The hypothetical returned Err: push the second position on the original.
HypotheticalFailed ==
  /\ pc = "ret"
  /\ ret = "Err"
  /\ frames # << >>
  /\ LET caller == Last(frames)
     IN  grid' = [caller.self EXCEPT
                    !.set_cells = Append(@, << caller.pair_digit, caller.pair_indecies[2] >>)]
  /\ frames' = Front(frames)
  /\ pc' = "loop"
  /\ ret' = "none"
  /\ last' = [NoOp EXCEPT !.op = "hypothetical_failed"]
  /\ UNCHANGED << clues, order, output, underflow, commits >>

\* The hypothetical returned Ok: *self = hypothetical; return Ok.
HypotheticalSolved ==
  /\ pc = "ret"
  /\ ret = "Ok"
  /\ frames # << >>
  /\ grid' = grid
  /\ frames' = Front(frames)
  /\ commits' = commits + 1
  /\ last' = NoOp
  /\ UNCHANGED << clues, order, pc, ret, output, underflow >>

\* main: the outermost solve has returned.
Main ==
  /\ pc = "ret"
  /\ frames = << >>
  /\ IF ret = "Err"
     THEN /\ output' = [kind |-> "No solution could be found.", str |-> << >>]
          /\ pc' = "done"
     ELSE IF ~ verify_solution(grid)
     THEN /\ output' = output
          /\ pc' = "panicked"
     ELSE /\ output' = [kind |-> "Solution: ", str |-> to_str(grid)]
          /\ pc' = "done"
  /\ last' = NoOp
  /\ UNCHANGED << clues, order, grid, frames, ret, underflow, commits >>

Next ==
  \/ PopDelMaybe
  \/ PopSetCell
  \/ HiddenSingles
  \/ Solved
  \/ Guess
  \/ Panic
  \/ HypotheticalFailed
  \/ HypotheticalSolved
  \/ Main

Spec == Init /\ [][Next]_vars

(***************************************************************************)
(* Properties                                                              *)
(***************************************************************************)

\* The cells of a group, as sets of positions.
RowCells(r) == { << x, r >> : x \in Idx }
ColCells(c) == { << c, y >> : y \in Idx }
BlkCells(b) == { BlkCell(b, k) : k \in Idx }
Groups == { RowCells(i) : i \in Idx } \cup { ColCells(i) : i \in Idx }
            \cup { BlkCells(i) : i \in Idx }

\* A valid solved state: Sudoku rules on the cells, bookkeeping exhausted.
SolvedState(g) ==
  /\ \A p \in Pos : g.cells[p[1]][p[2]] \in Digits /\ g.maybe[p[1]][p[2]] = {}
  /\ \A G \in Groups : \A d \in Digits :
        \E p \in G : /\ g.cells[p[1]][p[2]] = d
                     /\ \A q \in G : g.cells[q[1]][q[2]] = d => q = p
  /\ \A i \in Idx, di \in Idx :
        /\ g.row_digit_counters[i][di] = 0
        /\ g.col_digit_counters[i][di] = 0
        /\ g.blk_digit_counters[i][di] = 0

\* The position of the (1-based) place i of a grid string.
PlaceOf(i) == << (i - 1) % N, (i - 1) \div N >>
\* The clue of str at position p (0: none).
ClueAt(str, p) == str[p[2] * N + p[1] + 1]

\* The outermost solve has returned r.
Returned(r) == frames = << >> /\ ret = r

\* C1 (soundness): whenever the outermost solve has returned Ok, after any
\* number of nested guesses and commits, verify_solution holds of the grid:
\* every cell is filled, every row, column and block holds each digit exactly
\* once, every candidate set is empty and every counter is zero.
Soundness ==
  Returned("Ok") => verify_solution(grid) /\ SolvedState(grid)

SoundnessWitness ==
  /\ pc = "done"
  /\ Returned("Ok")
  /\ commits > 0
  /\ output.kind = "Solution: "

\* C2 (completeness): on an input with exactly one completion the process
\* never aborts, the outermost solve returns Ok and never Err, to_str of the
\* grid is that completion, and it is what main prints.
CompletionOf(str) == IF str \in Unique1 THEN Solution1 ELSE Solution2

Completeness ==
  clues \in Unique1 \cup Unique2 =>
    /\ pc # "panicked"
    /\ ~ Returned("Err")
    /\ Returned("Ok") => to_str(grid) = CompletionOf(clues)
    /\ pc = "done" => output.str = CompletionOf(clues)

CompletenessWitness ==
  /\ clues = Puzzle1
  /\ pc = "done"
  /\ Returned("Ok")
  /\ to_str(grid) = Solution1
  /\ output.str = Solution1

\* Two clues of one group carry the same digit.
DuplicateClue(str) ==
  \E G \in Groups : \E p, q \in G :
     p # q /\ ClueAt(str, p) # 0 /\ ClueAt(str, p) = ClueAt(str, q)

\* Some group lacks a digit d and each of its cells either carries a clue or
\* has d among the clues of its row, column or block.
StarvedGroup(str) ==
  \E G \in Groups : \E d \in Digits :
     /\ \A p \in G : ClueAt(str, p) # d
     /\ \A p \in G :
          \/ ClueAt(str, p) # 0
          \/ \E H \in Groups : p \in H /\ \E q \in H : ClueAt(str, q) = d

\* Sufficient for str to have no completion.
NoCompletion(str) == DuplicateClue(str) \/ StarvedGroup(str)

\* C3 (failure detection), as claimed: on an input with no completion the
\* outermost solve returns Err: it never returns Ok and the process never
\* aborts instead.
FailureDetected ==
  NoCompletion(clues) => pc # "panicked" /\ ~ Returned("Ok")

\* C4 (the solution completes the puzzle): whenever the outermost solve has
\* returned Ok, each cell that carried a clue holds that clue.
CluesKept ==
  Returned("Ok") =>
    \A i \in 1 .. Len(clues) :
       clues[i] # 0 => grid.cells[PlaceOf(i)[1]][PlaceOf(i)[2]] = clues[i]

CluesKeptWitness ==
  /\ Returned("Ok")
  /\ commits > 1
  /\ \E i \in 1 .. Len(clues) : clues[i] # 0
  /\ \E i \in 1 .. Len(clues) : clues[i] = 0

\* Some row, column or block counter is exactly 2.
SomePair(g) ==
  \E i \in Idx, di \in Idx :
     \/ g.row_digit_counters[i][di] = 2
     \/ g.col_digit_counters[i][di] = 2
     \/ g.blk_digit_counters[i][di] = 2

\* C5 (solve runs to completion), as claimed: whenever propagation has
\* stalled with a candidate left, some counter is exactly 2, and the process
\* never aborts in find_maybe_pair.
PairAlwaysFound ==
  /\ pc # "panicked"
  /\ (pc = "stalled" /\ grid.maybe # NoMaybe) => SomePair(grid)

\* C6 (branch independence): the grid a guess is taken from is suspended as
\* it is, no step of the hypothetical changes a suspended grid, and when the
\* hypothetical returns Err the grid that resumes is the suspended one with
\* one more entry on its assignment queue: the pair digit at the second pair
\* position.
BranchIndependence ==
  [][ /\ \/ frames' = frames
         \/ frames' = Front(frames) /\ frames # << >>
         \/ /\ Front(frames') = frames
            /\ frames' # << >>
            /\ Last(frames').self = grid
      /\ (pc = "ret" /\ ret = "Err" /\ frames # << >>) =>
           LET original == Last(frames).self
               entry == << Last(frames).pair_digit, Last(frames).pair_indecies[2] >>
           IN  /\ grid'.cells = original.cells
               /\ grid'.maybe = original.maybe
               /\ grid'.row_digit_counters = original.row_digit_counters
               /\ grid'.col_digit_counters = original.col_digit_counters
               /\ grid'.blk_digit_counters = original.blk_digit_counters
               /\ grid'.del_maybes = original.del_maybes
               /\ grid'.set_cells = Append(original.set_cells, entry)
    ]_vars

BranchIndependenceWitness ==
  /\ last.op = "hypothetical_failed"
  /\ pc = "loop"
  /\ frames # << >>
  /\ grid.del_maybes = << >>
  /\ Len(grid.set_cells) = 1
  /\ grid.maybe # NoMaybe

\* The cells of the blocks, tabulated.
BlkTable == [b \in Idx |-> [k \in Idx |-> BlkCell(b, k)]]

\* Every counter of g is the number of cells of its group that list the digit.
CountersMatch(g) ==
  \A i \in Idx, di \in Idx :
     /\ g.row_digit_counters[i][di] =
          Cardinality({x \in Idx : (di + 1) \in g.maybe[x][i]})
     /\ g.col_digit_counters[i][di] =
          Cardinality({y \in Idx : (di + 1) \in g.maybe[i][y]})
     /\ g.blk_digit_counters[i][di] =
          Cardinality({k \in Idx :
             (di + 1) \in g.maybe[BlkTable[i][k][1]][BlkTable[i][k][2]]})

\* C7 (counter invariant): in every state (between any two del_maybe and
\* set_cell steps, from the grid from_str builds on) each row, column and
\* block counter of a digit is the number of cells of the group whose
\* candidate set holds the digit; and no counter that was 0 has been
\* decremented.  (A suspended grid was the running grid when it was
\* suspended and has not changed since.)
CounterInvariant ==
  /\ ~ underflow
  /\ CountersMatch(grid)

CounterInvariantWitness ==
  /\ pc = "stalled"
  /\ frames # << >>
  /\ grid.maybe # NoMaybe
  /\ \E i \in Idx, di \in Idx : grid.row_digit_counters[i][di] \in 1 .. (N - 1)
  /\ \E p \in Pos : grid.cells[p[1]][p[2]] # 0

\* C8 (idempotence of removal): a step that pops a removal (d, p) while d is
\* not a candidate at p only pops: cells, candidate sets, counters, the
\* assignment queue and the rest of the removal queue stay as they are, and
\* solve goes on (del_maybe returned Ok).
RemovalIdempotent ==
  [][ ( /\ pc = "loop"
        /\ grid.del_maybes # << >>
        /\ Last(grid.del_maybes)[1] \notin
             grid.maybe[Last(grid.del_maybes)[2][1]][Last(grid.del_maybes)[2][2]] )
      => /\ grid' = [grid EXCEPT !.del_maybes = Front(@)]
         /\ pc' = "loop"
         /\ ret' = "none"
         /\ underflow' = underflow
    ]_vars

\* A removal was just repeated on a blank cell that still has candidates.
RemovalIdempotentWitness ==
  /\ last.op = "del_maybe"
  /\ ~ last.had
  /\ last.res = "Ok"
  /\ grid.cells[last.index[1]][last.index[2]] = 0
  /\ grid.maybe[last.index[1]][last.index[2]] # {}

\* C9 (verify after Err), as claimed: once the outermost solve has returned
\* Err, verify_solution of the grid is false.
ErrNeverVerifies ==
  Returned("Err") => ~ verify_solution(grid)

(***************************************************************************)
(* verify_solution on its own: called on the solved state of Solution1 and *)
(* on that state with one thing changed.                                   *)
(***************************************************************************)
SolvedGrid ==
  [ cells |-> [x \in Idx |-> [y \in Idx |-> ClueAt(Solution1, << x, y >>)]],
    maybe |-> NoMaybe,
    row_digit_counters |-> AllZero,
    col_digit_counters |-> AllZero,
    blk_digit_counters |-> AllZero,
    del_maybes |-> << >>,
    set_cells |-> << >> ]

Near == 0 .. PerturbSpan

SwapCells(g, p, q) ==
  [g EXCEPT !.cells[p[1]][p[2]] = g.cells[q[1]][q[2]],
            !.cells[q[1]][q[2]] = g.cells[p[1]][p[2]]]

\* Rows a and b of the cells exchanged.
SwapRows(g, a, b) ==
  [g EXCEPT !.cells = [x \in Idx |-> [y \in Idx |->
      IF y = a THEN g.cells[x][b] ELSE IF y = b THEN g.cells[x][a] ELSE g.cells[x][y]]]]

\* Columns a and b of the cells exchanged.
SwapCols(g, a, b) ==
  [g EXCEPT !.cells = [x \in Idx |-> [y \in Idx |->
      IF x = a THEN g.cells[b][y] ELSE IF x = b THEN g.cells[a][y] ELSE g.cells[x][y]]]]

Perturbed ==
  { [SolvedGrid EXCEPT !.cells[x][y] = v] : x \in Near, y \in Near, v \in 0 .. N }
    \cup { SwapCells(SolvedGrid, p, q) : p \in Near \X Near, q \in Near \X Near }
    \cup { SwapRows(SolvedGrid, a, a + B) : a \in Near }
    \cup { SwapCols(SolvedGrid, a, a + B) : a \in Near }
    \cup { [SolvedGrid EXCEPT !.maybe[x][y] = {d}] : x \in Near, y \in Near, d \in Digits }
    \cup { [SolvedGrid EXCEPT !.row_digit_counters[i][di] = 1] : i \in Near, di \in Near }
    \cup { [SolvedGrid EXCEPT !.col_digit_counters[i][di] = 1] : i \in Near, di \in Near }
    \cup { [SolvedGrid EXCEPT !.blk_digit_counters[i][di] = 1] : i \in Near, di \in Near }

VerifyInit ==
  /\ clues = Solution1
  /\ order = CodeOrder
  /\ grid \in Perturbed
  /\ frames = << >>
  /\ pc = "verify"
  /\ ret = "none"
  /\ output = [kind |-> "none", str |-> << >>]
  /\ last = NoOp
  /\ underflow = FALSE
  /\ commits = 0

\* A caller applies verify_solution(&self) to the grid.
Verify ==
  /\ pc = "verify"
  /\ output' = [kind |-> IF verify_solution(grid) THEN "true" ELSE "false", str |-> << >>]
  /\ pc' = "verified"
  /\ UNCHANGED << clues, order, grid, frames, ret, last, underflow, commits >>

VerifyNext == Verify

VerifySpec == VerifyInit /\ [][VerifyNext]_vars

\* C10 (verify_solution): the call leaves the grid as it is and returns true
\* exactly when every cell holds a digit 1-9, each row, column and block holds
\* each digit exactly once, and every candidate set and counter is zero.
VerifyExact ==
  [][ pc = "verify" =>
        /\ grid' = grid
        /\ (output'.kind = "true") <=> SolvedState(grid)
        /\ output'.kind \in {"true", "false"}
    ]_vars

VerifyExactWitness ==
  /\ pc = "verified"
  /\ output.kind = "false"
  /\ grid.maybe = NoMaybe
  /\ grid.blk_digit_counters = AllZero
  /\ \A p \in Pos : grid.cells[p[1]][p[2]] # 0

\* The grid is as from_str built it: no step of solve has been taken.
Constructed == pc = "loop" /\ last = NoOp

\* C11 (construct from clues): the grid from_str builds has every cell blank,
\* every candidate set full, every counter 9, no pending removal, and one
\* pending assignment per non-zero clue, in the order of the string: the
\* clue at row-major place i (from 0) gives (digit, (i mod 9, i div 9)).
\* Zeros enqueue nothing.
FromStrBuilt ==
  Constructed =>
    /\ \A p \in Pos : grid.cells[p[1]][p[2]] = 0 /\ grid.maybe[p[1]][p[2]] = 1 .. 9
    /\ \A i \in Idx, di \in Idx :
          /\ grid.row_digit_counters[i][di] = 9
          /\ grid.col_digit_counters[i][di] = 9
          /\ grid.blk_digit_counters[i][di] = 9
    /\ grid.del_maybes = << >>
    /\ Len(grid.set_cells) = Cardinality({i \in 1 .. Len(clues) : clues[i] # 0})
    /\ \A i \in 1 .. Len(clues) :
          clues[i] # 0 =>
            grid.set_cells[Cardinality({j \in 1 .. i : clues[j] # 0})]
              = << clues[i], << (i - 1) % 9, (i - 1) \div 9 >> >>

FromStrBuiltWitness ==
  /\ Constructed
  /\ clues = Puzzle1
  /\ Len(grid.set_cells) > 1
  /\ grid.set_cells[2] = << 8, << 5, 0 >> >>

\* The number of the block of position p.
BlkNo(p) == (p[1] \div 3) + (p[2] \div 3) * 3

\* Positions p and q share a row, a column or a block.
SameGroup(p, q) == p[1] = q[1] \/ p[2] = q[2] \/ BlkNo(p) = BlkNo(q)

\* C12 (outcomes of set_cell): a step that pops the assignment (d, p)
\*  - fails (Err) and changes nothing else when p holds another digit;
\*  - fails (Err) and changes nothing else when p is blank and d is no
\*    candidate at p;
\*  - goes on (Ok) and changes nothing else when p holds d;
\*  - otherwise goes on (Ok), sets the cell to d, empties the candidate set
\*    of p, decrements each counter of p's row, column and block once per
\*    candidate p still had, enqueues removals of d at exactly the cells of
\*    p's row, column and block that list d, and leaves the other cells,
\*    candidate sets, counters and the assignment queue alone.
SetCellOutcomes ==
  [][ ( /\ pc = "loop"
        /\ grid.del_maybes = << >>
        /\ grid.set_cells # << >> )
      =>
        LET d == Last(grid.set_cells)[1]
            p == Last(grid.set_cells)[2]
            rest == [grid EXCEPT !.set_cells = Front(@)]
            held == grid.cells[p[1]][p[2]]
            cands == grid.maybe[p[1]][p[2]]
            dec(e) == IF (e + 1) \in cands THEN 1 ELSE 0
        IN  IF held # 0 /\ held # d
            THEN grid' = rest /\ pc' = "ret" /\ ret' = "Err"
            ELSE IF held = 0 /\ d \notin cands
            THEN grid' = rest /\ pc' = "ret" /\ ret' = "Err"
            ELSE IF held = d
            THEN grid' = rest /\ pc' = "loop" /\ ret' = "none"
            ELSE
              /\ pc' = "loop" /\ ret' = "none"
              /\ grid'.cells = [grid.cells EXCEPT ![p[1]][p[2]] = d]
              /\ grid'.maybe = [grid.maybe EXCEPT ![p[1]][p[2]] = {}]
              /\ \A i \in Idx, e \in Idx :
                   /\ grid'.row_digit_counters[i][e] =
                        grid.row_digit_counters[i][e] - (IF i = p[2] THEN dec(e) ELSE 0)
                   /\ grid'.col_digit_counters[i][e] =
                        grid.col_digit_counters[i][e] - (IF i = p[1] THEN dec(e) ELSE 0)
                   /\ grid'.blk_digit_counters[i][e] =
                        grid.blk_digit_counters[i][e] - (IF i = BlkNo(p) THEN dec(e) ELSE 0)
              /\ grid'.set_cells = rest.set_cells
              /\ \A k \in 1 .. Len(grid'.del_maybes) : grid'.del_maybes[k][1] = d
              /\ {grid'.del_maybes[k][2] : k \in 1 .. Len(grid'.del_maybes)} =
                   {q \in Pos : SameGroup(p, q) /\ d \in grid.maybe[q[1]][q[2]]}
    ]_vars

\* set_cell has just failed on a blank cell that did not list the digit.
SetCellOutcomesWitness ==
  /\ last.op = "set_cell"
  /\ last.res = "Err"
  /\ ~ last.had
  /\ grid.cells[last.index[1]][last.index[2]] = 0
  /\ pc = "ret"

\* The cells that share a group with each position, the position excepted.
PeersOf == [p \in Pos |-> {r \in Pos : r # p /\ SameGroup(p, r)}]

\* The digits placed in the cells that share a group with p, p excepted.
PeerDigits(g, p) == {g.cells[q[1]][q[2]] : q \in PeersOf[p]} \ {0}

\* C15 (peer exclusion): whenever the removal queue is empty, no cell lists
\* a digit that is placed in another cell of its row, column or block; and
\* the cell set_cell has just filled holds a digit that none of its peers
\* holds.
PeerExclusion ==
  /\ grid.del_maybes = << >> =>
       \A p \in Pos :
         grid.maybe[p[1]][p[2]] # {} =>
           \A q \in PeersOf[p] : grid.cells[q[1]][q[2]] \notin grid.maybe[p[1]][p[2]]
  /\ (last.op = "set_cell" /\ last.res = "Ok" /\ last.had) =>
       last.digit \notin PeerDigits(grid, last.index)

\* The removals of a placed digit have been drained: the removal queue is
\* empty again, a blank cell has lost a candidate to a placed peer, and the
\* next assignment is about to be popped.
PeerExclusionWitness ==
  /\ pc = "loop"
  /\ last.op = "del_maybe"
  /\ grid.del_maybes = << >>
  /\ grid.set_cells # << >>
  /\ \E p \in Pos : /\ grid.cells[p[1]][p[2]] = 0
                    /\ PeerDigits(grid, p) # {}
                    /\ grid.maybe[p[1]][p[2]] = (1 .. 9) \ PeerDigits(grid, p)

\* The completions of str among the known solved grids.
KnownCompletions(str) ==
  {s \in {Solution1, Solution2} : \A i \in 1 .. Len(str) : str[i] # 0 => str[i] = s[i]}

\* Completion s has, at each of the k outermost suspended guesses, the
\* guessed digit at the first position of the pair.
OnPath(s, k) ==
  \A j \in 1 .. k : ClueAt(s, frames[j].pair_indecies[1]) = frames[j].pair_digit

\* C13 (binary exclusion is sound): the outermost solve returns Err only on
\* clues without completion, never on clues that have one; and for clues
\* with a completion s, a solve whose enclosing guesses all agree with s
\* does not return Err, so that when a hypothetical fails under guesses that
\* agree with s, s has the guessed digit at the second position of the pair.
ExclusionSound ==
  /\ Returned("Err") => NoCompletion(clues) /\ KnownCompletions(clues) = {}
  /\ \A s \in KnownCompletions(clues) :
       /\ (pc = "ret" /\ OnPath(s, Len(frames))) => ret # "Err"
       /\ (pc = "ret" /\ ret = "Err" /\ frames # << >> /\ OnPath(s, Len(frames) - 1)) =>
            ClueAt(s, Last(frames).pair_indecies[2]) = Last(frames).pair_digit

\* On clues with one completion, a nested hypothetical has failed under
\* enclosing guesses that agree with the completion.
ExclusionSoundWitness ==
  /\ clues \in Unique1 \cup Unique2
  /\ pc = "ret"
  /\ ret = "Err"
  /\ Len(frames) > 1
  /\ OnPath(CompletionOf(clues), Len(frames) - 1)

\* Both queues of g are empty and none of its counters equals 1.
Quiescent(g) ==
  /\ g.del_maybes = << >>
  /\ g.set_cells = << >>
  /\ \A i \in Idx, di \in Idx :
       /\ g.row_digit_counters[i][di] # 1
       /\ g.col_digit_counters[i][di] # 1
       /\ g.blk_digit_counters[i][di] # 1

\* C16 (escalation discipline): a step that pops an assignment starts with
\* an empty removal queue; a step that runs find_hidden_singles starts with
\* both queues empty; and a step that leaves the inner loop's break for the
\* solved test's return, for a guess (a clone is pushed) or for the abort of
\* find_maybe_pair starts with both queues empty and no counter equal to 1.
Escalation ==
  [][ /\ (frames' = frames /\ Len(grid'.set_cells) < Len(grid.set_cells)) =>
           grid.del_maybes = << >>
      /\ last'.op = "find_hidden_singles" =>
           grid.del_maybes = << >> /\ grid.set_cells = << >>
      /\ (pc = "stalled" /\ ret' = "Ok") => Quiescent(grid)
      /\ Len(frames') > Len(frames) => Quiescent(grid)
      /\ last'.op = "find_maybe_pair" => Quiescent(grid)
    ]_vars

\* A guess has just been made on a grid on which find_hidden_singles had
\* found assignments earlier: the clone holds the guessed assignment only.
EscalationWitness ==
  /\ last.op = "find_maybe_pair"
  /\ pc = "loop"
  /\ frames # << >>
  /\ Quiescent(Last(frames).self)
  /\ Len(grid.set_cells) = 1
  /\ \E p \in Pos : Last(frames).self.cells[p[1]][p[2]] # 0 /\ ClueAt(clues, p) = 0

\* Every cell that g has filled holds the same digit in h.
KeepsCells(g, h) ==
  \A p \in Pos : g.cells[p[1]][p[2]] # 0 => h.cells[p[1]][p[2]] = g.cells[p[1]][p[2]]

\* Every filled cell of g has an empty candidate set.
FilledHaveNoMaybe(g) ==
  \A p \in Pos : g.cells[p[1]][p[2]] # 0 => g.maybe[p[1]][p[2]] = {}

\* C17 (cell immutability): a step of a solve keeps every filled cell of its
\* grid; a guess hands the clone the caller's cells and suspends the caller
\* unchanged; when a hypothetical returns, the caller's grid (its own after
\* Err, the adopted one after Ok) agrees with the suspended caller on every
\* cell the caller had filled; the suspended callers never change; and a
\* filled cell always has an empty candidate set.
CellsImmutable ==
  [][ /\ Len(frames') = Len(frames) => frames' = frames /\ KeepsCells(grid, grid')
      /\ Len(frames') > Len(frames) =>
           /\ Front(frames') = frames
           /\ Last(frames').self = grid
           /\ grid'.cells = grid.cells
      /\ Len(frames') < Len(frames) =>
           /\ frames' = Front(frames)
           /\ KeepsCells(Last(frames).self, grid')
      /\ FilledHaveNoMaybe(grid)
      /\ FilledHaveNoMaybe(grid')
    ]_vars

\* A successful hypothetical that had filled cells of its own has replaced
\* its caller's grid.
CellsImmutableWitness ==
  /\ commits > 0
  /\ pc = "ret"
  /\ ret = "Ok"
  /\ last = NoOp
  /\ \E p \in Pos : grid.cells[p[1]][p[2]] # 0 /\ ClueAt(clues, p) = 0

\* The number of blank cells of the grid string str.
BlankCount(str) == Cardinality({i \in 1 .. Len(str) : str[i] = 0})

\* The number of filled cells of g.
FilledCount(g) == Cardinality({p \in Pos : g.cells[p[1]][p[2]] # 0})

\* C18 (bounded search depth): the number of suspended solve calls never
\* exceeds the number of blank cells of the clues. The reason: each guess is
\* made at a cell that is blank in the caller and not a clue, the clone has
\* filled that cell with the guessed digit by the time it stalls or guesses
\* again, so each nested caller has more filled cells than the one before.
DepthBounded ==
  /\ Len(frames) <= BlankCount(clues)
  /\ \A j \in 1 .. Len(frames) :
       LET f == frames[j]
           p == f.pair_indecies[1]
           inner == IF j < Len(frames) THEN frames[j + 1].self ELSE grid
       IN  /\ p \in Pos
           /\ ClueAt(clues, p) = 0
           /\ f.self.cells[p[1]][p[2]] = 0
           /\ (j < Len(frames) \/ pc = "stalled") =>
                /\ inner.cells[p[1]][p[2]] = f.pair_digit
                /\ FilledCount(inner) > FilledCount(f.self)

\* Guesses are nested four deep and the innermost clone has stalled again.
DepthBoundedWitness ==
  /\ Len(frames) > 3
  /\ pc = "stalled"
  /\ grid.maybe # NoMaybe

\* The pair (d, c1, c2) is a sound binary guess on g: two distinct blank
\* cells, the only cells of some row, column or block that list d.
BinaryPair(g, d, c1, c2) ==
  /\ d \in Digits
  /\ c1 \in Pos /\ c2 \in Pos /\ c1 # c2
  /\ g.cells[c1[1]][c1[2]] = 0 /\ g.cells[c2[1]][c2[2]] = 0
  /\ \E G \in Groups : {p \in G : d \in g.maybe[p[1]][p[2]]} = {c1, c2}

\* C19 (guess selection): whenever propagation has stalled with a candidate
\* left and some counter equal to 2, find_maybe_pair finds a pair, writes no
\* third position, and returns a digit with two distinct blank cells that
\* are the only cells of a row, column or block listing the digit, neither
\* being the placeholder; the same holds of each of its three loops (rows,
\* columns, blocks) taken alone; and every suspended caller holds such a
\* pair for the grid it guessed on.
GuessSelection ==
  /\ (pc = "stalled" /\ grid.maybe # NoMaybe /\ SomePair(grid)) =>
       LET pair == find_maybe_pair(grid)
       IN  /\ pair.found
           /\ ~ pair.oob
           /\ Len(pair.cells) = 2
           /\ Placeholder \notin {pair.cells[1], pair.cells[2]}
           /\ BinaryPair(grid, pair.digit, pair.cells[1], pair.cells[2])
           /\ \A r \in {PairIn(grid, grid.row_digit_counters, RowScan),
                        PairIn(grid, grid.col_digit_counters, ColScan),
                        PairIn(grid, grid.blk_digit_counters, BlkScan)} :
                r.found => /\ ~ r.oob
                           /\ BinaryPair(grid, r.digit, r.cells[1], r.cells[2])
  /\ \A j \in 1 .. Len(frames) :
       BinaryPair(frames[j].self, frames[j].pair_digit,
                  frames[j].pair_indecies[1], frames[j].pair_indecies[2])

\* A pair has been found in a column, no row counter being 2, and the guess
\* has been made.
GuessSelectionWitness ==
  /\ last.op = "find_maybe_pair"
  /\ frames # << >>
  /\ grid = [Last(frames).self EXCEPT
               !.set_cells = << << Last(frames).pair_digit, Last(frames).pair_indecies[1] >> >>]
  /\ Last(frames).pair_indecies[1][1] = Last(frames).pair_indecies[2][1]
  /\ Last(frames).pair_indecies[1][2] # Last(frames).pair_indecies[2][2]

\* The blank cells of g with at most one candidate.
NakedCells(g) ==
  {p \in Pos : g.cells[p[1]][p[2]] = 0 /\ Cardinality(g.maybe[p[1]][p[2]]) <= 1}

\* Every blank cell of g with at most one candidate has an assignment
\* pending, of its candidate if it has one.
NakedPending(g) ==
  \A p \in NakedCells(g) :
    \E k \in 1 .. Len(g.set_cells) :
       /\ g.set_cells[k][2] = p
       /\ g.maybe[p[1]][p[2]] \subseteq {g.set_cells[k][1]}

\* Some blank cell of g has no candidate.
Dead(g) == \E p \in Pos : g.cells[p[1]][p[2]] = 0 /\ g.maybe[p[1]][p[2]] = {}

\* C20 (naked singles are never lost): before and after every step of a
\* running solve, every blank cell with at most one candidate has an
\* assignment for it pending; once a blank cell has no candidate, the solve
\* attempt stays in its inner loop with that cell until it returns Err; and
\* no blank cell with at most one candidate exists when the inner loop is
\* left (the state a guess is made from), none in a suspended caller, and no
\* blank cell at all when a solve has returned Ok.
NakedSinglesKept ==
  [][ /\ pc \in {"loop", "stalled"} => NakedPending(grid)
      /\ pc' \in {"loop", "stalled"} => NakedPending(grid')
      /\ (pc \in {"loop", "stalled"} /\ Dead(grid)) =>
           \/ pc' = "loop" /\ frames' = frames /\ Dead(grid')
           \/ pc' = "ret" /\ ret' = "Err" /\ frames' = frames
      /\ pc' = "stalled" => NakedCells(grid') = {}
      /\ \A j \in 1 .. Len(frames') : NakedCells(frames'[j].self) = {}
      /\ ret' = "Ok" => \A p \in Pos : grid'.cells[p[1]][p[2]] # 0
    ]_vars

\* A removal has just emptied the candidate set of a blank cell whose
\* assignment is still pending.
NakedSinglesKeptWitness ==
  /\ pc = "loop"
  /\ last.op = "del_maybe"
  /\ last.had
  /\ grid.cells[last.index[1]][last.index[2]] = 0
  /\ grid.maybe[last.index[1]][last.index[2]] = {}
  /\ \E k \in 1 .. Len(grid.set_cells) : grid.set_cells[k] = << last.digit, last.index >>

(***************************************************************************)
(* The worklist taken in other orders: the inner loop of solve with the    *)
(* queue served first and the end of each queue entries are taken from     *)
(* left open, every other step of solve as in the code.                    *)
(***************************************************************************)
Orders ==
  [first : {"removals", "assignments"}, del : {"top", "bottom"}, set : {"top", "bottom"}]

\* The entry of queue q at the given end, and the queue without it.
Take(q, end) ==
  IF end = "top" THEN [entry |-> Last(q), rest |-> Front(q)]
                 ELSE [entry |-> Head(q), rest |-> Tail(q)]

\* The inner loop takes a removal, as the order in force allows.
TakeDelMaybe ==
  /\ pc = "loop"
  /\ grid.del_maybes # << >>
  /\ order.first = "removals" \/ grid.set_cells = << >>
  /\ LET t == Take(grid.del_maybes, order.del)
         digit == t.entry[1]
         index == t.entry[2]
         popped == [grid EXCEPT !.del_maybes = t.rest]
         r == del_maybe(popped, digit, index)
         had == digit \in grid.maybe[index[1]][index[2]]
     IN  /\ grid' = r.g
         /\ last' = [op |-> "del_maybe", digit |-> digit, index |-> index,
                     had |-> had, res |-> r.res]
         /\ underflow' = (underflow \/ (had /\ Underflows(popped, digit, index)))
         /\ IF r.res = "Err"
            THEN pc' = "ret" /\ ret' = "Err"
            ELSE pc' = "loop" /\ ret' = "none"
  /\ UNCHANGED << clues, order, frames, output, commits >>

\* The inner loop takes an assignment, as the order in force allows.
TakeSetCell ==
  /\ pc = "loop"
  /\ grid.set_cells # << >>
  /\ order.first = "assignments" \/ grid.del_maybes = << >>
  /\ LET t == Take(grid.set_cells, order.set)
         digit == t.entry[1]
         index == t.entry[2]
         popped == [grid EXCEPT !.set_cells = t.rest]
     IN  IF index \notin Pos
         THEN /\ pc' = "panicked"
              /\ grid' = popped
              /\ UNCHANGED << ret, last, underflow >>
         ELSE
           LET r == set_cell(popped, digit, index)
               had == digit \in grid.maybe[index[1]][index[2]]
               erased == IF grid.cells[index[1]][index[2]] = 0 /\ had
                         THEN grid.maybe[index[1]][index[2]] ELSE {}
           IN  /\ grid' = r.g
               /\ last' = [op |-> "set_cell", digit |-> digit, index |-> index,
                           had |-> had, res |-> r.res]
               /\ underflow' = (underflow \/
                                  \E d \in erased : Underflows(popped, d, index))
               /\ IF r.res = "Err"
                  THEN pc' = "ret" /\ ret' = "Err"
                  ELSE pc' = "loop" /\ ret' = "none"
  /\ UNCHANGED << clues, order, frames, output, commits >>

\* Clue grids on which the code's own order gives each outcome: Ok with the
\* one completion, Err, and the abort of find_maybe_pair.
OrderGrids ==
  {Puzzle1, Puzzle2, Solution1, Blank} \cup {WrongClue(Solution1, i) : i \in 1 .. MaxWrong}

OrderInit ==
  /\ clues \in OrderGrids
  /\ order \in Orders
  /\ grid = from_str(clues)
  /\ frames = << >>
  /\ pc = "loop"
  /\ ret = "none"
  /\ output = [kind |-> "none", str |-> << >>]
  /\ last = NoOp
  /\ underflow = FALSE
  /\ commits = 0

OrderNext ==
  \/ TakeDelMaybe
  \/ TakeSetCell
  \/ HiddenSingles
  \/ Solved
  \/ Guess
  \/ Panic
  \/ HypotheticalFailed
  \/ HypotheticalSolved
  \/ Main

OrderSpec == OrderInit /\ [][OrderNext]_vars

\* What the outermost solve does on the clue grids of OrderGrids when the
\* worklist is taken in the code's order.
OutcomeOf(str) ==
  IF str \in Unique1 \cup Unique2 THEN "Ok"
  ELSE IF str = Blank THEN "abort"
  ELSE "Err"

\* The outermost solve has ended as on the code's order: the same result,
\* on Ok the same cells, accepted by verify_solution.
SameOutcome ==
  /\ Returned("Ok") =>
       /\ OutcomeOf(clues) = "Ok"
       /\ to_str(grid) = CompletionOf(clues)
       /\ verify_solution(grid)
  /\ Returned("Err") => OutcomeOf(clues) = "Err"
  /\ (pc = "panicked" /\ ret = "none") => OutcomeOf(clues) = "abort"

\* The process has ended: main has finished or the process has aborted.
Ended == pc \in {"done", "panicked"}

\* The number of candidates listed in column x of g, and in all of g.
MaybesIn(g, x) ==
  Cardinality(g.maybe[x][0]) + Cardinality(g.maybe[x][1]) + Cardinality(g.maybe[x][2])
    + Cardinality(g.maybe[x][3]) + Cardinality(g.maybe[x][4]) + Cardinality(g.maybe[x][5])
    + Cardinality(g.maybe[x][6]) + Cardinality(g.maybe[x][7]) + Cardinality(g.maybe[x][8])

Maybes(g) ==
  MaybesIn(g, 0) + MaybesIn(g, 1) + MaybesIn(g, 2) + MaybesIn(g, 3) + MaybesIn(g, 4)
    + MaybesIn(g, 5) + MaybesIn(g, 6) + MaybesIn(g, 7) + MaybesIn(g, 8)

\* Some pending assignment of g names a cell that lists its digit.
LiveWork(g) ==
  \E k \in 1 .. Len(g.set_cells) :
     /\ g.set_cells[k][2] \in Pos
     /\ g.set_cells[k][1] \in g.maybe[g.set_cells[k][2][1]][g.set_cells[k][2][2]]

\* The rank of a solve: the candidates left in its grid, then how far the
\* solve is from changing them (6: only idle work is pending; 5: both queues
\* are empty in the inner loop; 4: stalled; 3: suspended on a hypothetical;
\* 2: a live assignment is pending; 1: returned; 0: ended), then the pending
\* work of the inner loop.
RunningRank ==
  << Maybes(grid),
     IF pc = "loop"
     THEN IF LiveWork(grid) THEN 2
          ELSE IF grid.del_maybes = << >> /\ grid.set_cells = << >> THEN 5
          ELSE 6
     ELSE IF pc = "stalled" THEN 4
     ELSE IF pc = "ret" THEN 1
     ELSE 0,
     IF pc = "loop" THEN Len(grid.del_maybes) + Len(grid.set_cells) ELSE 0 >>

\* The ranks of the suspended callers, outermost first, then of the running
\* solve.
Rank ==
  [j \in 1 .. Len(frames) + 1 |->
     IF j <= Len(frames) THEN << Maybes(frames[j].self), 3, 0 >>
     ELSE RunningRank]

\* a comes before b in the lexicographic order of triples.
TripleLess(a, b) ==
  \/ a[1] < b[1]
  \/ a[1] = b[1] /\ a[2] < b[2]
  \/ a[1] = b[1] /\ a[2] = b[2] /\ a[3] < b[3]

\* a comes before b at the first position where they differ.
LexLess(a, b) ==
  \E i \in 1 .. Len(a) :
     /\ i <= Len(b)
     /\ \A j \in 1 .. i - 1 : a[j] = b[j]
     /\ TripleLess(a[i], b[i])

\* C14 (order independence of the worklist), as claimed: whatever queue is
\* served first and whatever end of each queue entries are taken from, the
\* outermost solve ends as on the code's order: the same result, on Ok the
\* same cells, accepted by verify_solution.
OrderIndependent == SameOutcome

\* C14, amended: when removals are served before assignments, as in the
\* code, and entries are taken from either end of each queue, the outermost
\* solve ends as on the code's order (the same result, on Ok the same cells,
\* accepted by verify_solution), the process is never stuck before its end,
\* and every step lowers the rank, so that every run is finite.
RemovalsFirstIndependent ==
  /\ [](order.first = "removals" => SameOutcome /\ (Ended \/ ENABLED OrderNext))
  /\ [][order.first = "removals" => LexLess(Rank', Rank)]_vars

\* Removals first, but both queues taken from the other end than the code
\* does: solve has returned Ok on Puzzle1 after adopting a hypothetical.
RemovalsFirstIndependentWitness ==
  /\ order = [first |-> "removals", del |-> "bottom", set |-> "bottom"]
  /\ clues = Puzzle1
  /\ Returned("Ok")
  /\ commits > 0
  /\ to_str(grid) = Solution1
====
